---- MODULE Spec2Model ----
(***************************************************************************)
(* Directive resolution and composition of the scout server:               *)
(*   define_directives!  (src/src/mcp_rs/src/tools/directives.rs)          *)
(*   ScoutMcpServer      (src/src/mcp_rs/examples/scout.rs)                *)
(*                                                                         *)
(* A Rust String is modelled as a sequence of characters; a character is a *)
(* one-character TLA+ string ("U+0130" and "U+212A" name two non-ASCII     *)
(* code points).  The files pulled in by include_str! are inputs of the    *)
(* build: their contents are chosen in Init and never change afterwards.   *)
(***************************************************************************)
EXTENDS Integers, Sequences, FiniteSets, TLC

VARIABLES assets, core_philosophy, request, response, calls, locals,
          TOOL_USAGE_COUNTER, printed, repo

vars == <<assets, core_philosophy, request, response, calls, locals,
          TOOL_USAGE_COUNTER, printed, repo>>

\* the request being served, or the idle marker between two requests
Idle == [tool |-> "none", arg |-> <<>>]

NoResponse == [isError |-> FALSE, value |-> <<>>]

(* ------------------------------ bounds --------------------------------- *)

\* longest `languages` vector passed to adapt
MaxLangs == 2

\* longest path list given to files!([...])
MaxFiles == 3

(* ------------------------- str::to_lowercase --------------------------- *)

UpperAscii ==
    <<"A","B","C","D","E","F","G","H","I","J","K","L","M",
      "N","O","P","Q","R","S","T","U","V","W","X","Y","Z">>

LowerAscii ==
    <<"a","b","c","d","e","f","g","h","i","j","k","l","m",
      "n","o","p","q","r","s","t","u","v","w","x","y","z">>

\* char::to_lowercase: one character may lower to several (U+0130), and a
\* non-ASCII character may lower to an ASCII one (U+212A KELVIN SIGN -> k).
AsciiLowercase ==
    [c \in {UpperAscii[i] : i \in 1..Len(UpperAscii)} |->
        LowerAscii[CHOOSE i \in 1..Len(UpperAscii) : UpperAscii[i] = c]]

AsciiUppercase ==
    [c \in {LowerAscii[i] : i \in 1..Len(UpperAscii)} |->
        UpperAscii[CHOOSE i \in 1..Len(UpperAscii) : LowerAscii[i] = c]]

char_to_lowercase(c) ==
    IF c \in DOMAIN AsciiLowercase THEN <<AsciiLowercase[c]>>
    ELSE IF c = "U+0130" THEN <<"i", "U+0307">>
    ELSE IF c = "U+212A" THEN <<"k">>
    ELSE <<c>>

\* char::to_uppercase on ASCII, used to build the case variants of an input
char_to_uppercase(c) ==
    IF c \in DOMAIN AsciiUppercase THEN AsciiUppercase[c] ELSE c

RECURSIVE to_lowercase(_)
to_lowercase(s) ==
    IF s = <<>> THEN <<>>
    ELSE char_to_lowercase(Head(s)) \o to_lowercase(Tail(s))

(* ----------------------------- registry -------------------------------- *)

\* the separator literal "\n\n---\n\n"
separator == <<"\n","\n","-","-","-","\n","\n">>

None == "None"

\* variant: the alias "rs" is declared for C as well as for Rust
Registry_shared_alias == <<
    [lang |-> "Readme", name |-> <<"R","e","a","d","m","e">>,
     aliases |-> << <<"r","e","a","d","m","e">> >>,
     content_type |-> "file", content |-> <<"d-readme.md">>],
    [lang |-> "Rust", name |-> <<"R","u","s","t">>,
     aliases |-> << <<"r","s">> >>,
     content_type |-> "files", content |-> <<"d-rust.md", "d-rust.rs">>],
    [lang |-> "Python", name |-> <<"P","y","t","h","o","n">>,
     aliases |-> << <<"p","y">> >>,
     content_type |-> "files", content |-> <<"d-python.md", "d-python.py">>],
    [lang |-> "Web", name |-> <<"W","e","b">>,
     aliases |-> << <<"j","s">>, <<"t","s">>, <<"s","v","e","l","t","e">> >>,
     content_type |-> "content",
     content |-> <<"W","e","b"," ","t","e","c","h","n","o","l","o","g","i","e","s"," ",
                   "g","u","i","d","a","n","c","e"," ",
                   "p","l","a","c","e","h","o","l","d","e","r">>],
    [lang |-> "Go", name |-> <<"G","o">>,
     aliases |-> << <<"g","o">> >>,
     content_type |-> "content",
     content |-> <<"G","o"," ","g","u","i","d","a","n","c","e"," ",
                   "p","l","a","c","e","h","o","l","d","e","r">>],
    [lang |-> "C", name |-> <<"C">>,
     aliases |-> << <<"c">>, <<"c","p","p">>, <<"c","+","+">>, <<"r","s">> >>,
     content_type |-> "content",
     content |-> <<"C","-","b","a","s","e","d"," ","l","a","n","g","u","a","g","e","s"," ",
                   "g","u","i","d","a","n","c","e"," ",
                   "p","l","a","c","e","h","o","l","d","e","r">>]
    >>

\* define_directives! { ... } of the scout server, in declaration order.
\* name is stringify!($lang); content_type is content / file / files.
Registry == <<
    [lang |-> "Readme", name |-> <<"R","e","a","d","m","e">>,
     aliases |-> << <<"r","e","a","d","m","e">> >>,
     content_type |-> "file", content |-> <<"d-readme.md">>],
    [lang |-> "Rust", name |-> <<"R","u","s","t">>,
     aliases |-> << <<"r","s">> >>,
     content_type |-> "files", content |-> <<"d-rust.md", "d-rust.rs">>],
    [lang |-> "Python", name |-> <<"P","y","t","h","o","n">>,
     aliases |-> << <<"p","y">> >>,
     content_type |-> "files", content |-> <<"d-python.md", "d-python.py">>],
    [lang |-> "Web", name |-> <<"W","e","b">>,
     aliases |-> << <<"j","s">>, <<"t","s">>, <<"s","v","e","l","t","e">> >>,
     content_type |-> "content",
     content |-> <<"W","e","b"," ","t","e","c","h","n","o","l","o","g","i","e","s"," ",
                   "g","u","i","d","a","n","c","e"," ",
                   "p","l","a","c","e","h","o","l","d","e","r">>],
    [lang |-> "Go", name |-> <<"G","o">>,
     aliases |-> << <<"g","o">> >>,
     content_type |-> "content",
     content |-> <<"G","o"," ","g","u","i","d","a","n","c","e"," ",
                   "p","l","a","c","e","h","o","l","d","e","r">>],
    [lang |-> "C", name |-> <<"C">>,
     aliases |-> << <<"c">>, <<"c","p","p">>, <<"c","+","+">> >>,
     content_type |-> "content",
     content |-> <<"C","-","b","a","s","e","d"," ","l","a","n","g","u","a","g","e","s"," ",
                   "g","u","i","d","a","n","c","e"," ",
                   "p","l","a","c","e","h","o","l","d","e","r">>]
    >>

\* variant: a variant of the enum that the registry does not declare
LanguageGuide_unregistered == {Registry[i].lang : i \in 1..Len(Registry)} \cup {"Kotlin"}

\* pub enum LanguageGuide { $($lang),+ }
LanguageGuide == {Registry[i].lang : i \in 1..Len(Registry)}

\* the files named by file!/files! under assets/meta-prompt
AssetPaths == {"d-readme.md", "d-rust.md", "d-rust.rs", "d-python.md", "d-python.py"}

\* contents a file of the build may have
Contents == {<<>>, <<"a">>, <<"b">>}

\* contents of core-philosophy.md
BaseDocs == {<<"B">>, <<"B","A","S","E">>}

(* ---------------------------- from_string ------------------------------ *)

\* variant: the name is compared as written (stringify!($lang) not lowercased)
entry_matches_case_sensitive(s_lower, i) ==
    \/ s_lower = Registry[i].name
    \/ \E k \in 1..Len(Registry[i].aliases) : s_lower = Registry[i].aliases[k]

\* the condition of the if generated for entry i
entry_matches(s_lower, i) ==
    \/ s_lower = to_lowercase(Registry[i].name)
    \/ \E k \in 1..Len(Registry[i].aliases) : s_lower = Registry[i].aliases[k]

\* the $( if ... { return Some(Self::$lang); } )+ chain, then None
RECURSIVE from_string_scan(_, _)
from_string_scan(s_lower, i) ==
    IF i > Len(Registry) THEN None
    ELSE IF entry_matches(s_lower, i) THEN Registry[i].lang
    ELSE from_string_scan(s_lower, i + 1)

Whitespace == {" ", "\t", "\n"}

\* str::trim
RECURSIVE trim_start(_)
trim_start(s) ==
    IF s # <<>> /\ Head(s) \in Whitespace THEN trim_start(Tail(s)) ELSE s

RECURSIVE trim_end(_)
trim_end(s) ==
    IF s # <<>> /\ s[Len(s)] \in Whitespace
    THEN trim_end(SubSeq(s, 1, Len(s) - 1)) ELSE s

trim(s) == trim_end(trim_start(s))

\* variant: the input is trimmed before it is lowercased
from_string_trimmed(s) == from_string_scan(to_lowercase(trim(s)), 1)

\* variant: the input is compared as supplied
from_string_no_lowercase(s) == from_string_scan(s, 1)

from_string(s) ==
    LET s_lower == to_lowercase(s)
    IN  from_string_scan(s_lower, 1)

(* ---------------------------- get_guidance ----------------------------- *)

\* variant: the separator is skipped when the file being added is empty
RECURSIVE process_content_files_skip_empty(_, _)
process_content_files_skip_empty(combined, paths) ==
    IF paths = <<>> THEN combined
    ELSE LET content  == assets[Head(paths)]
             combined1 == IF content # <<>> THEN combined \o separator
                          ELSE combined
         IN  process_content_files_skip_empty(combined1 \o content, Tail(paths))

\* files!([...]): one pass of the $( ... )+ repetition per path
RECURSIVE process_content_files_loop(_, _)
process_content_files_loop(combined, paths) ==
    IF paths = <<>> THEN combined
    ELSE LET content  == assets[Head(paths)]
             combined1 == IF combined # <<>> THEN combined \o separator
                          ELSE combined
         IN  process_content_files_loop(combined1 \o content, Tail(paths))

\* variant: the contents are joined, a separator between every two files
RECURSIVE process_content_files_join(_)
process_content_files_join(paths) ==
    IF Len(paths) = 1 THEN assets[paths[1]]
    ELSE assets[Head(paths)] \o separator \o process_content_files_join(Tail(paths))

process_content_files(paths) == process_content_files_loop(<<>>, paths)

process_content_file(path) == assets[path]

process_content_inline(str) == str

process_content(entry) ==
    CASE entry.content_type = "content" -> process_content_inline(entry.content)
      [] entry.content_type = "file"    -> process_content_file(entry.content[1])
      [] entry.content_type = "files"   -> process_content_files(entry.content)

get_guidance(lang) ==
    LET i == CHOOSE j \in 1..Len(Registry) : Registry[j].lang = lang
    IN  process_content(Registry[i])

(* ------------------------------- adapt --------------------------------- *)

\* variant: the notice quotes the normalized identifier
notice_lowercased(language) ==
    <<"N","o","t","e",":"," ","N","o"," ","s","p","e","c","i","f","i","c"," ",
      "g","u","i","d","a","n","c","e"," ","a","v","a","i","l","a","b","l","e"," ",
      "f","o","r"," ","l","a","n","g","u","a","g","e",":"," ","'">>
    \o to_lowercase(language) \o <<"'",".">>

\* format!("Note: No specific guidance available for language: '{}'.", language)
notice(language) ==
    <<"N","o","t","e",":"," ","N","o"," ","s","p","e","c","i","f","i","c"," ",
      "g","u","i","d","a","n","c","e"," ","a","v","a","i","l","a","b","l","e"," ",
      "f","o","r"," ","l","a","n","g","u","a","g","e",":"," ","'">>
    \o language \o <<"'",".">>

\* the match of the loop body
guidance_for(language) ==
    LET lang_guide == from_string(language)
    IN  IF lang_guide # None THEN get_guidance(lang_guide)
        ELSE notice(language)

\* variant: the separator is pushed after the guidance
RECURSIVE adapt_loop_sep_after(_, _)
adapt_loop_sep_after(result, languages) ==
    IF languages = <<>> THEN result
    ELSE adapt_loop_sep_after(result \o guidance_for(Head(languages)) \o separator,
                              Tail(languages))

\* variant: the loop ends at the first unresolved identifier
RECURSIVE adapt_loop_stop_on_unknown(_, _)
adapt_loop_stop_on_unknown(result, languages) ==
    IF languages = <<>> THEN result
    ELSE IF from_string(Head(languages)) = None
         THEN result \o separator \o guidance_for(Head(languages))
         ELSE adapt_loop_stop_on_unknown(
                  result \o separator \o guidance_for(Head(languages)),
                  Tail(languages))

\* variant: the vector is consumed from its end
RECURSIVE adapt_loop_reversed(_, _)
adapt_loop_reversed(result, languages) ==
    IF languages = <<>> THEN result
    ELSE adapt_loop_reversed(
             result \o separator \o guidance_for(languages[Len(languages)]),
             SubSeq(languages, 1, Len(languages) - 1))

\* variant: an identifier equal to its predecessor is skipped
RECURSIVE adapt_loop_dedup(_, _)
adapt_loop_dedup(result, languages) ==
    IF languages = <<>> THEN result
    ELSE LET rest == Tail(languages)
             next == IF rest # <<>> /\ Head(rest) = Head(languages)
                     THEN Tail(rest) ELSE rest
         IN  adapt_loop_dedup(result \o separator \o guidance_for(Head(languages)),
                              next)

\* for language in &params.0.languages { ... }
RECURSIVE adapt_loop(_, _)
adapt_loop(result, languages) ==
    IF languages = <<>> THEN result
    ELSE LET language == Head(languages)
             result1  == result \o separator
             guidance == guidance_for(language)
         IN  adapt_loop(result1 \o guidance, Tail(languages))

\* variant: a separator always follows the base document
adapt_base_then_separator(languages) ==
    [isError |-> FALSE,
     value |-> adapt_loop_sep_after(core_philosophy \o separator, languages)]

\* variant: the base document is pushed only when nothing is requested
adapt_base_only_when_empty(languages) ==
    [isError |-> FALSE,
     value |-> IF languages = <<>> THEN core_philosophy
               ELSE adapt_loop(<<>>, languages)]

\* async fn adapt: Ok(CallToolResult::success(vec![Content::text(result)]))
adapt(languages) ==
    LET result0 == <<>>
        result1 == result0 \o core_philosophy
    IN  [isError |-> FALSE, value |-> adapt_loop(result1, languages)]

(* ------------------------------ inputs --------------------------------- *)

RECURSIVE CaseVariants(_)
CaseVariants(s) ==
    IF s = <<>> THEN {<<>>}
    ELSE {<<c>> \o r : c \in {Head(s), char_to_uppercase(Head(s))},
                       r \in CaseVariants(Tail(s))}

RegisteredNames == {to_lowercase(Registry[i].name) : i \in 1..Len(Registry)}

RegisteredAliases ==
    UNION {{Registry[i].aliases[k] : k \in 1..Len(Registry[i].aliases)} :
           i \in 1..Len(Registry)}

\* strings that are no name and no alias of the registry
UnknownIds == {
    <<"u","n","k","n","o","w","n","l","a","n","g">>,
    <<"g","o","l","a","n","g">>,
    <<"Z","i","g">>,
    <<" ","p","y">>,
    <<"r","u","s","t"," ">>,
    <<"U+0130">>,
    <<"U+212A","t">>,
    <<>> }

\* registered strings with one blank before or after them
PaddedIds ==
    {<<" ">> \o s : s \in RegisteredNames \cup RegisteredAliases}
    \cup {s \o <<" ">> : s \in RegisteredNames \cup RegisteredAliases}

\* arguments of from_string: the lowercased names, the aliases in every
\* casing, the padded and the unknown strings
Identifiers ==
    RegisteredNames
    \cup UNION {CaseVariants(s) : s \in RegisteredAliases}
    \cup PaddedIds
    \cup UnknownIds

\* elements of the languages vector of adapt
AdaptIds == {
    <<"p","y">>, <<"P","Y">>, <<"r","e","a","d","m","e">>, <<"j","s">>,
    <<"u","n","k","n","o","w","n","l","a","n","g">>, <<"Z","i","g">>,
    <<" ","p","y">> }

SeqsUpTo(S, n) == UNION {[1..k -> S] : k \in 0..n}

AdaptRequests == SeqsUpTo(AdaptIds, MaxLangs)

\* the paths a files!([...]) list is drawn from
ListedPaths == {"d-rust.md", "d-rust.rs", "d-python.md"}

\* files!([$($path:literal),+]) takes at least one path
PathLists == SeqsUpTo(ListedPaths, MaxFiles) \ {<<>>}

(* ------------------ define_directives! on any registry ----------------- *)

\* most entries of an invocation of the macro
MaxEntries == 2

\* most aliases of one entry
MaxAliases == 1

\* the condition of the if generated for one entry
entry_matches_of(entry, s_lower) ==
    \/ s_lower = to_lowercase(entry.name)
    \/ \E k \in 1..Len(entry.aliases) : s_lower = entry.aliases[k]

\* variant: no early return, a later matching entry overwrites the result
RECURSIVE from_string_scan_last_match(_, _, _)
from_string_scan_last_match(registry, s_lower, i) ==
    IF i > Len(registry) THEN None
    ELSE LET later == from_string_scan_last_match(registry, s_lower, i + 1)
         IN  IF later # None THEN later
             ELSE IF entry_matches_of(registry[i], s_lower) THEN registry[i].lang
             ELSE None

\* the $( if ... { return Some(Self::$lang); } )+ chain, then None
RECURSIVE from_string_scan_of(_, _, _)
from_string_scan_of(registry, s_lower, i) ==
    IF i > Len(registry) THEN None
    ELSE IF entry_matches_of(registry[i], s_lower) THEN registry[i].lang
    ELSE from_string_scan_of(registry, s_lower, i + 1)

\* from_string as generated for the entries of `registry`
from_string_of(registry, s) ==
    LET s_lower == to_lowercase(s)
    IN  from_string_scan_of(registry, s_lower, 1)

\* $lang identifiers and alias literals the invocations are built from
EntryNames == {<<"G","o">>, <<"C">>, <<"P","y">>}

EntryAliases == {<<"g","o">>, <<"c">>, <<"x">>}

\* the variant name of an identifier
VariantOf(name) ==
    CASE name = <<"G","o">> -> "Go"
      [] name = <<"C">>     -> "C"
      [] name = <<"P","y">> -> "Py"

\* invocations of the macro: the variants of an enum are distinct, aliases
\* are free
MacroRegistries ==
    LET Entries == {[lang |-> VariantOf(n), name |-> n, aliases |-> a] :
                       n \in EntryNames, a \in SeqsUpTo(EntryAliases, MaxAliases)}
    IN  {r \in SeqsUpTo(Entries, MaxEntries) \ {<<>>} :
            \A i \in 1..Len(r) : \A j \in 1..Len(r) :
                i # j => r[i].lang # r[j].lang}

MacroInputs ==
    {<<"g","o">>, <<"G","O">>, <<"c">>, <<"x">>, <<"X">>, <<"p","y">>,
     <<"z","z">>, <<>>}

(* ------------------- the example directives servers -------------------- *)
(* ex_: src/src/mcp_rs/examples/directives.rs, resolver generated by the    *)
(*      macro of that file;                                                 *)
(* hw_: src/mcp-rs/examples/directives.rs, resolver written by hand.        *)

\* define_directives! { ... } of the example server, in declaration order
ExampleRegistry == <<
    [lang |-> "Go", name |-> <<"G","o">>,
     aliases |-> << <<"g","o","l","a","n","g">> >>,
     content_type |-> "literal",
     content |-> <<"G","o"," ","g","u","i","d","a","n","c","e"," ","p","l",
                   "a","c","e","h","o","l","d","e","r">>],
    [lang |-> "Python", name |-> <<"P","y","t","h","o","n">>,
     aliases |-> << <<"p","y">> >>,
     content_type |-> "lang_files",
     content |-> [lang_name |-> "python", exts |-> <<"md", "py">>]],
    [lang |-> "Rust", name |-> <<"R","u","s","t">>,
     aliases |-> << <<"r","s">> >>,
     content_type |-> "literal",
     content |-> <<"R","u","s","t"," ","g","u","i","d","a","n","c","e"," ",
                   "p","l","a","c","e","h","o","l","d","e","r">>],
    [lang |-> "C", name |-> <<"C">>,
     aliases |-> << <<"c","p","p">>,
                  <<"c","+","+">>,
                  <<"o","b","j","c">>,
                  <<"o","b","j","e","c","t","i","v","e","-","c">> >>,
     content_type |-> "literal",
     content |-> <<"C","-","b","a","s","e","d"," ","l","a","n","g","u","a",
                   "g","e","s"," ","g","u","i","d","a","n","c","e"," ","p",
                   "l","a","c","e","h","o","l","d","e","r">>],
    [lang |-> "Web", name |-> <<"W","e","b">>,
     aliases |-> << <<"j","a","v","a","s","c","r","i","p","t">>,
                  <<"j","s">>,
                  <<"t","y","p","e","s","c","r","i","p","t">>,
                  <<"t","s">>,
                  <<"h","t","m","l">>,
                  <<"c","s","s">>,
                  <<"s","v","e","l","t","e">>,
                  <<"r","e","a","c","t">>,
                  <<"v","u","e">> >>,
     content_type |-> "literal",
     content |-> <<"W","e","b"," ","t","e","c","h","n","o","l","o","g","i",
                   "e","s"," ","g","u","i","d","a","n","c","e"," ","p","l",
                   "a","c","e","h","o","l","d","e","r">>],
    [lang |-> "Kotlin", name |-> <<"K","o","t","l","i","n">>,
     aliases |-> << <<"j","a","v","a">>,
                  <<"k","t">> >>,
     content_type |-> "literal",
     content |-> <<"K","o","t","l","i","n"," ","g","u","i","d","a","n","c",
                   "e"," ","p","l","a","c","e","h","o","l","d","e","r">>],
    [lang |-> "Container", name |-> <<"C","o","n","t","a","i","n","e","r">>,
     aliases |-> << <<"d","o","c","k","e","r">>,
                  <<"p","o","d","m","a","n">>,
                  <<"d","o","c","k","e","r","f","i","l","e">> >>,
     content_type |-> "literal",
     content |-> <<"C","o","n","t","a","i","n","e","r"," ","t","e","c","h",
                   "n","o","l","o","g","i","e","s"," ","g","u","i","d","a",
                   "n","c","e"," ","p","l","a","c","e","h","o","l","d","e",
                   "r">>],
    [lang |-> "SystemTool", name |-> <<"S","y","s","t","e","m","T","o","o","l">>,
     aliases |-> << <<"s","y","s","t","e","m">>,
                  <<"t","o","o","l">>,
                  <<"r","g">>,
                  <<"r","i","p","g","r","e","p">>,
                  <<"e","z","a">>,
                  <<"f","d">>,
                  <<"f","z","f">>,
                  <<"b","a","t">>,
                  <<"e","x","a">> >>,
     content_type |-> "literal",
     content |-> <<"S","y","s","t","e","m"," ","t","o","o","l","s"," ","g",
                   "u","i","d","a","n","c","e"," ","p","l","a","c","e","h",
                   "o","l","d","e","r">>]
    >>

\* the arm generated for one entry: stringify!($lang) | $($alias)|*
ex_arm_matches(entry, s_lower) ==
    \/ s_lower = entry.name
    \/ \E k \in 1..Len(entry.aliases) : s_lower = entry.aliases[k]

\* match s.to_lowercase().as_str() { arms in order, _ => None }
RECURSIVE ex_from_string_match(_, _)
ex_from_string_match(s_lower, i) ==
    IF i > Len(ExampleRegistry) THEN None
    ELSE IF ex_arm_matches(ExampleRegistry[i], s_lower) THEN ExampleRegistry[i].lang
    ELSE ex_from_string_match(s_lower, i + 1)

ex_from_string(s) == ex_from_string_match(to_lowercase(s), 1)

\* @content {$lang_name, [$($ext),*]}: every file followed by "\n"
RECURSIVE ex_content_files(_, _)
ex_content_files(lang_name, exts) ==
    IF exts = <<>> THEN <<>>
    ELSE assets["d-" \o lang_name \o "." \o Head(exts)] \o <<"\n">>
           \o ex_content_files(lang_name, Tail(exts))

\* get_<lang>_guidance(), reached through the free function get_guidance
ex_get_guidance(lang) ==
    LET entry == ExampleRegistry[CHOOSE i \in 1..Len(ExampleRegistry) :
                                    ExampleRegistry[i].lang = lang]
    IN  IF entry.content_type = "lang_files"
        THEN ex_content_files(entry.content.lang_name, entry.content.exts)
        ELSE entry.content

\* format!("No specific guidance available for language: {}. Using general
\* development philosophy.", language)
fallback(language) ==
    <<"N","o"," ","s","p","e","c","i","f","i","c"," ","g","u","i","d","a","n",
      "c","e"," ","a","v","a","i","l","a","b","l","e"," ","f","o","r"," ","l",
      "a","n","g","u","a","g","e",":"," ">>
    \o language \o
    <<"."," ","U","s","i","n","g"," ","g","e","n","e","r","a","l"," ","d","e",
      "v","e","l","o","p","m","e","n","t"," ","p","h","i","l","o","s","o","p",
      "h","y",".">>

\* format!("### {} Guidance:\n", language)
heading(language) ==
    <<"#","#","#"," ">> \o language \o <<" ","G","u","i","d","a","n","c","e",":","\n">>

\* the tool get_guidance of the example server
ex_tool_get_guidance(language) ==
    LET lang_guide == ex_from_string(language)
    IN  IF lang_guide # None
        THEN [isError |-> FALSE, value |-> ex_get_guidance(lang_guide)]
        ELSE [isError |-> FALSE, value |-> fallback(language)]

\* variant: the separator is pushed between the blocks only
RECURSIVE ex_get_multiple_loop_joined(_, _)
ex_get_multiple_loop_joined(result, languages) ==
    IF languages = <<>> THEN [isError |-> FALSE, value |-> result]
    ELSE LET language == Head(languages)
             inner    == ex_tool_get_guidance(language)
             result1  == IF result # <<>> THEN result \o separator ELSE result
         IN  ex_get_multiple_loop_joined(
                 result1 \o heading(language) \o inner.value, Tail(languages))

\* for language in &params.0.languages { ... } with `?` on the inner call
RECURSIVE ex_get_multiple_loop(_, _)
ex_get_multiple_loop(result, languages) ==
    IF languages = <<>> THEN [isError |-> FALSE, value |-> result]
    ELSE LET language == Head(languages)
             result1  == result \o heading(language)
             inner    == ex_tool_get_guidance(language)
         IN  IF inner.isError THEN inner
             ELSE ex_get_multiple_loop(result1 \o inner.value \o separator,
                                       Tail(languages))

ex_get_multiple_guidances(languages) == ex_get_multiple_loop(<<>>, languages)

\* the arms of the hand-written match, in order
HandwrittenArms == <<
    [patterns |-> << <<"g","o">>,
                   <<"g","o","l","a","n","g">> >>,
     lang |-> "Go"],
    [patterns |-> << <<"p","y","t","h","o","n">>,
                   <<"p","y">> >>,
     lang |-> "Python"],
    [patterns |-> << <<"r","u","s","t">>,
                   <<"r","s">> >>,
     lang |-> "Rust"],
    [patterns |-> << <<"c">>,
                   <<"c","p","p">>,
                   <<"c","+","+">>,
                   <<"o","b","j","c">>,
                   <<"o","b","j","e","c","t","i","v","e","-","c">> >>,
     lang |-> "C"],
    [patterns |-> << <<"w","e","b">>,
                   <<"j","a","v","a","s","c","r","i","p","t">>,
                   <<"j","s">>,
                   <<"t","y","p","e","s","c","r","i","p","t">>,
                   <<"t","s">>,
                   <<"h","t","m","l">>,
                   <<"c","s","s">>,
                   <<"s","v","e","l","t","e">>,
                   <<"r","e","a","c","t">>,
                   <<"v","u","e">> >>,
     lang |-> "Web"],
    [patterns |-> << <<"j","a","v","a">>,
                   <<"k","o","t","l","i","n">>,
                   <<"k","t">> >>,
     lang |-> "Kotlin"],
    [patterns |-> << <<"c","o","n","t","a","i","n","e","r">>,
                   <<"d","o","c","k","e","r">>,
                   <<"p","o","d","m","a","n">>,
                   <<"d","o","c","k","e","r","f","i","l","e">> >>,
     lang |-> "Container"],
    [patterns |-> << <<"s","y","s","t","e","m">>,
                   <<"t","o","o","l">>,
                   <<"r","g">>,
                   <<"r","i","p","g","r","e","p">>,
                   <<"e","z","a">>,
                   <<"f","d">>,
                   <<"f","z","f">>,
                   <<"b","a","t">>,
                   <<"e","x","a">> >>,
     lang |-> "SystemTool"]
    >>

\* match s.to_lowercase().as_str() { arms in order, _ => None }
RECURSIVE hw_from_string_match(_, _)
hw_from_string_match(s_lower, i) ==
    IF i > Len(HandwrittenArms) THEN None
    ELSE IF \E k \in 1..Len(HandwrittenArms[i].patterns) :
                s_lower = HandwrittenArms[i].patterns[k]
         THEN HandwrittenArms[i].lang
    ELSE hw_from_string_match(s_lower, i + 1)

hw_from_string(s) == hw_from_string_match(to_lowercase(s), 1)

\* get_go_guidance ... get_system_tool_guidance
hw_guidance ==
    [Go |-> <<"G","o"," ","g","u","i","d","a","n","c","e"," ","p","l","a","c",
            "e","h","o","l","d","e","r">>,
     Python |-> <<"P","y","t","h","o","n"," ","g","u","i","d","a","n","c","e",
                " ","p","l","a","c","e","h","o","l","d","e","r">>,
     Rust |-> <<"R","u","s","t"," ","g","u","i","d","a","n","c","e"," ","p","l",
              "a","c","e","h","o","l","d","e","r">>,
     C |-> <<"C","-","b","a","s","e","d"," ","l","a","n","g","u","a","g","e",
           "s"," ","g","u","i","d","a","n","c","e"," ","p","l","a","c","e",
           "h","o","l","d","e","r">>,
     Web |-> <<"W","e","b"," ","t","e","c","h","n","o","l","o","g","i","e","s",
             " ","g","u","i","d","a","n","c","e"," ","p","l","a","c","e","h",
             "o","l","d","e","r">>,
     Kotlin |-> <<"K","o","t","l","i","n"," ","g","u","i","d","a","n","c","e",
                " ","p","l","a","c","e","h","o","l","d","e","r">>,
     Container |-> <<"C","o","n","t","a","i","n","e","r"," ","t","e","c","h",
                   "n","o","l","o","g","i","e","s"," ","g","u","i","d","a",
                   "n","c","e"," ","p","l","a","c","e","h","o","l","d","e",
                   "r">>,
     SystemTool |-> <<"S","y","s","t","e","m"," ","t","o","o","l","s"," ","g",
                    "u","i","d","a","n","c","e"," ","p","l","a","c","e","h",
                    "o","l","d","e","r">>]

\* the tool get_guidance of the hand-written server
hw_tool_get_guidance(language) ==
    LET lang_guide == hw_from_string(language)
    IN  IF lang_guide # None
        THEN [isError |-> FALSE, value |-> hw_guidance[lang_guide]]
        ELSE [isError |-> FALSE, value |-> fallback(language)]

\* for language in &params.0.languages { ... } with `?` on the inner call
RECURSIVE hw_get_multiple_loop(_, _)
hw_get_multiple_loop(result, languages) ==
    IF languages = <<>> THEN [isError |-> FALSE, value |-> result]
    ELSE LET language == Head(languages)
             result1  == result \o heading(language)
             inner    == hw_tool_get_guidance(language)
         IN  IF inner.isError THEN inner
             ELSE hw_get_multiple_loop(result1 \o inner.value \o separator,
                                       Tail(languages))

hw_get_multiple_guidances(languages) == hw_get_multiple_loop(<<>>, languages)

\* the categories of both example servers
DirectiveGuides == {ExampleRegistry[i].lang : i \in 1..Len(ExampleRegistry)}

\* arguments of the resolvers: the names as written and lowercased, the
\* aliases as written and uppercased, and strings neither server knows
DirectiveIds ==
    {ExampleRegistry[i].name : i \in 1..Len(ExampleRegistry)}
    \cup {to_lowercase(ExampleRegistry[i].name) : i \in 1..Len(ExampleRegistry)}
    \cup UNION {{a, [k \in 1..Len(a) |-> char_to_uppercase(a[k])]} :
                a \in UNION {{ExampleRegistry[i].aliases[k] :
                                 k \in 1..Len(ExampleRegistry[i].aliases)} :
                             i \in 1..Len(ExampleRegistry)}}
    \cup {<<"z","i","g">>, <<" ","p","y">>, <<"U+212A","t">>, <<>>}

\* elements of the languages vector of get_multiple_guidances
MultipleIds ==
    {<<"p","y">>, <<"g","o">>, <<"R","S">>, <<"p","y","t","h","o","n">>,
     <<"z","i","g">>}

MultipleRequests == SeqsUpTo(MultipleIds, MaxLangs)

(* --------------------------- concurrent calls -------------------------- *)

\* the tasks the runtime runs the handlers of in-flight requests on
Tasks == {"t1", "t2"}

NotRunning == [tool |-> "none", arg |-> <<>>, pc |-> "idle", i |-> 0,
               output |-> NoResponse]

NoCalls == [t \in Tasks |-> NotRunning]

NoLocals == [t \in Tasks |-> <<>>]

\* variant: one result buffer for all calls
buffer_shared(t) == "t1"

\* let mut result = String::new(): the buffer is a local of the call
buffer_of(t) == t

ConcurrentIds == {<<"p","y">>, <<"u","n","k","n","o","w","n","l","a","n","g">>}

ConcurrentRequests == SeqsUpTo(ConcurrentIds, MaxLangs)

ConcurrentGuides == {"Readme", "Python"}

\* a request arrives and its handler is spawned on a free task
BeginAdapt ==
    \E t \in Tasks : \E languages \in ConcurrentRequests :
        /\ calls[t].pc = "idle"
        /\ calls' = [calls EXCEPT ![t] =
                        [tool |-> "adapt", arg |-> languages, pc |-> "new",
                         i |-> 1, output |-> NoResponse]]
        /\ UNCHANGED <<assets, core_philosophy, request, response, locals,
                     TOOL_USAGE_COUNTER, printed, repo>>

BeginFromString ==
    \E t \in Tasks : \E s \in ConcurrentIds :
        /\ calls[t].pc = "idle"
        /\ calls' = [calls EXCEPT ![t] =
                        [tool |-> "from_string", arg |-> s, pc |-> "resolve",
                         i |-> 0, output |-> NoResponse]]
        /\ UNCHANGED <<assets, core_philosophy, request, response, locals,
                     TOOL_USAGE_COUNTER, printed, repo>>

BeginGetGuidance ==
    \E t \in Tasks : \E lang \in ConcurrentGuides :
        /\ calls[t].pc = "idle"
        /\ calls' = [calls EXCEPT ![t] =
                        [tool |-> "get_guidance", arg |-> lang, pc |-> "guide",
                         i |-> 0, output |-> NoResponse]]
        /\ UNCHANGED <<assets, core_philosophy, request, response, locals,
                     TOOL_USAGE_COUNTER, printed, repo>>

\* let mut result = String::new();
NewResult ==
    \E t \in Tasks :
        /\ calls[t].pc = "new"
        /\ locals' = [locals EXCEPT ![buffer_of(t)] = <<>>]
        /\ calls' = [calls EXCEPT ![t].pc = "push_base"]
        /\ UNCHANGED <<assets, core_philosophy, request, response,
                     TOOL_USAGE_COUNTER, printed, repo>>

\* result.push_str(core_philosophy);
PushBase ==
    \E t \in Tasks :
        /\ calls[t].pc = "push_base"
        /\ locals' = [locals EXCEPT ![buffer_of(t)] = @ \o core_philosophy]
        /\ calls' = [calls EXCEPT ![t].pc = "for"]
        /\ UNCHANGED <<assets, core_philosophy, request, response,
                     TOOL_USAGE_COUNTER, printed, repo>>

\* for language in &params.0.languages { result.push_str("\n\n---\n\n");
PushSeparator ==
    \E t \in Tasks :
        /\ calls[t].pc = "for"
        /\ calls[t].i <= Len(calls[t].arg)
        /\ locals' = [locals EXCEPT ![buffer_of(t)] = @ \o separator]
        /\ calls' = [calls EXCEPT ![t].pc = "guidance"]
        /\ UNCHANGED <<assets, core_philosophy, request, response,
                     TOOL_USAGE_COUNTER, printed, repo>>

\* let guidance = match ...; result.push_str(&guidance); }
PushGuidance ==
    \E t \in Tasks :
        /\ calls[t].pc = "guidance"
        /\ locals' = [locals EXCEPT ![buffer_of(t)] =
                         @ \o guidance_for(calls[t].arg[calls[t].i])]
        /\ calls' = [calls EXCEPT ![t].pc = "for", ![t].i = @ + 1]
        /\ UNCHANGED <<assets, core_philosophy, request, response,
                     TOOL_USAGE_COUNTER, printed, repo>>

\* Ok(CallToolResult::success(vec![Content::text(result)]))
ReturnResult ==
    \E t \in Tasks :
        /\ calls[t].pc = "for"
        /\ calls[t].i > Len(calls[t].arg)
        /\ calls' = [calls EXCEPT
                        ![t].pc = "done",
                        ![t].output = [isError |-> FALSE,
                                       value |-> locals[buffer_of(t)]]]
        /\ locals' = [locals EXCEPT ![buffer_of(t)] = <<>>]
        /\ UNCHANGED <<assets, core_philosophy, request, response,
                     TOOL_USAGE_COUNTER, printed, repo>>

ResolveStep ==
    \E t \in Tasks :
        /\ calls[t].pc = "resolve"
        /\ calls' = [calls EXCEPT
                        ![t].pc = "done",
                        ![t].output = [isError |-> FALSE,
                                       value |-> from_string(calls[t].arg)]]
        /\ UNCHANGED <<assets, core_philosophy, request, response, locals,
                     TOOL_USAGE_COUNTER, printed, repo>>

GuideStep ==
    \E t \in Tasks :
        /\ calls[t].pc = "guide"
        /\ calls' = [calls EXCEPT
                        ![t].pc = "done",
                        ![t].output = [isError |-> FALSE,
                                       value |-> get_guidance(calls[t].arg)]]
        /\ UNCHANGED <<assets, core_philosophy, request, response, locals,
                     TOOL_USAGE_COUNTER, printed, repo>>

\* the response is written to the transport and the task ends
Finish ==
    \E t \in Tasks :
        /\ calls[t].pc = "done"
        /\ calls' = [calls EXCEPT ![t] = NotRunning]
        /\ UNCHANGED <<assets, core_philosophy, request, response, locals,
                     TOOL_USAGE_COUNTER, printed, repo>>

(* ------------------------------ parse_str ------------------------------ *)

\* the usage counts one run hands out (the AtomicUsize wraps at 2^64, far
\* beyond it)
MaxCalls == 3

\* the working tree, the remote and the hosting service before any tool ran
EmptyRepo == [staged |-> FALSE, commits |-> {}, tags |-> {}, pushed |-> {},
              releases |-> {}]

\* slice::join
RECURSIVE join(_, _)
join(values, sep) ==
    IF values = <<>> THEN <<>>
    ELSE IF Len(values) = 1 THEN Head(values)
    ELSE Head(values) \o sep \o join(Tail(values), sep)

\* format!("\x1b[1;32m✅ Parsed Values:\x1b[0m \x1b[34m[{}]\x1b[0m", ..)
formatted_string(values) ==
    <<"ESC[1;32m", "U+2705", " ", "Parsed Values:", "ESC[0m", " ",
      "ESC[34m", "[">> \o join(values, <<",", " ">>) \o <<"]", "ESC[0m">>

ParseInputs == {
    <<>>,
    << <<"1">>, <<"2">> >>,
    << <<"a">> >> }

BeginParseStr ==
    \E t \in Tasks : \E values \in ParseInputs :
        /\ calls[t].pc = "idle"
        /\ TOOL_USAGE_COUNTER <= MaxCalls
        /\ calls' = [calls EXCEPT ![t] =
                        [tool |-> "parse_str", arg |-> values,
                         pc |-> "fetch_add", i |-> 0, output |-> NoResponse]]
        /\ UNCHANGED <<assets, core_philosophy, request, response, locals,
                       TOOL_USAGE_COUNTER, printed, repo>>

\* variant: the counter is read and left as it is
FetchAdd_load ==
    \E t \in Tasks :
        /\ calls[t].pc = "fetch_add"
        /\ locals' = [locals EXCEPT ![t] = TOOL_USAGE_COUNTER]
        /\ calls' = [calls EXCEPT ![t].pc = "println"]
        /\ UNCHANGED <<assets, core_philosophy, request, response,
                       TOOL_USAGE_COUNTER, printed, repo>>

\* let usage_count = TOOL_USAGE_COUNTER.fetch_add(1, Ordering::SeqCst);
FetchAdd ==
    \E t \in Tasks :
        /\ calls[t].pc = "fetch_add"
        /\ locals' = [locals EXCEPT ![t] = TOOL_USAGE_COUNTER]
        /\ TOOL_USAGE_COUNTER' = TOOL_USAGE_COUNTER + 1
        /\ calls' = [calls EXCEPT ![t].pc = "println"]
        /\ UNCHANGED <<assets, core_philosophy, request, response, printed,
                       repo>>

\* println!("\x1b[33mTool usage {}:\x1b[0m {}", usage_count, values.join(" "));
Println ==
    \E t \in Tasks :
        /\ calls[t].pc = "println"
        /\ printed' = Append(printed, [usage_count |-> locals[t],
                                       values |-> join(calls[t].arg, <<" ">>)])
        /\ calls' = [calls EXCEPT ![t].pc = "format"]
        /\ UNCHANGED <<assets, core_philosophy, request, response, locals,
                       TOOL_USAGE_COUNTER, repo>>

\* variant: the usage count is part of the returned text
FormatReturn_counted ==
    \E t \in Tasks :
        /\ calls[t].pc = "format"
        /\ calls' = [calls EXCEPT
                        ![t].pc = "done",
                        ![t].output =
                            [isError |-> FALSE,
                             value |-> <<locals[t]>>
                                       \o formatted_string(calls[t].arg)]]
        /\ UNCHANGED <<assets, core_philosophy, request, response, locals,
                       TOOL_USAGE_COUNTER, printed, repo>>

\* let formatted_string = format!(..); Ok(formatted_string)
FormatReturn ==
    \E t \in Tasks :
        /\ calls[t].pc = "format"
        /\ calls' = [calls EXCEPT
                        ![t].pc = "done",
                        ![t].output =
                            [isError |-> FALSE,
                             value |-> formatted_string(calls[t].arg)]]
        /\ UNCHANGED <<assets, core_philosophy, request, response, locals,
                       TOOL_USAGE_COUNTER, printed, repo>>

\* the response is written to the transport; the locals of the call are gone
Respond ==
    \E t \in Tasks :
        /\ calls[t].pc = "done"
        /\ calls' = [calls EXCEPT ![t] = NotRunning]
        /\ locals' = [locals EXCEPT ![t] = <<>>]
        /\ UNCHANGED <<assets, core_philosophy, request, response,
                       TOOL_USAGE_COUNTER, printed, repo>>

(* --------------------------------- add --------------------------------- *)

\* i32::MAX, i32::MIN
MaxI32 == 2147483647

MinI32 == -2147483647 - 1

Digit(d) == <<"0", "1", "2", "3", "4", "5", "6", "7", "8", "9">>[d + 1]

\* the decimal digits of n >= 0, most significant first
RECURSIVE Digits(_)
Digits(n) == IF n < 10 THEN <<Digit(n)>> ELSE Digits(n \div 10) \o <<Digit(n % 10)>>

\* the decimal string of 10 * q + d, for 0 <= d <= 9
DecimalOf(q, d) ==
    IF q > 0 THEN Digits(q) \o <<Digit(d)>>
    ELSE IF q = 0 THEN <<Digit(d)>>
    ELSE IF d = 0 THEN <<"-">> \o Digits(-q) \o <<"0">>
    ELSE IF q = -1 THEN <<"-", Digit(10 - d)>>
    ELSE <<"-">> \o Digits(-q - 1) \o <<Digit(10 - d)>>

\* impl Display for i32
to_string(n) == DecimalOf(n \div 10, n % 10)

\* a + b does not fit an i32
overflows(a, b) ==
    \/ a > 0 /\ b > 0 /\ a > MaxI32 - b
    \/ a < 0 /\ b < 0 /\ a < MinI32 - b

\* a + b of a build without overflow checks: two's complement wrap
wrapping_add(a, b) ==
    IF a > 0 /\ b > 0 /\ a > MaxI32 - b
    THEN ((a - MaxI32) - 1) + ((b - MaxI32) - 1)
    ELSE IF a < 0 /\ b < 0 /\ a < MinI32 - b
    THEN ((a + MaxI32) + 1) + ((b + MaxI32) + 1)
    ELSE a + b

\* a + b of a build with overflow checks panics on overflow
panic == [isError |-> TRUE,
          value |-> <<"attempt to add with overflow">>]

\* let result = params.0.a + params.0.b; Ok(result.to_string()), for each
\* build: with overflow checks (dev profile) and without (release profile)
add(a, b) ==
    IF overflows(a, b)
    THEN {panic, [isError |-> FALSE, value |-> to_string(wrapping_add(a, b))]}
    ELSE {[isError |-> FALSE, value |-> to_string(a + b)]}

AddInputs == {MinI32, MinI32 + 1, -2147483000, -100, -1, 0, 1, 9, 648,
              2147483000, MaxI32 - 1, MaxI32}

CallAdd ==
    /\ request = Idle
    /\ \E a \in AddInputs : \E b \in AddInputs : \E result \in add(a, b) :
        /\ request' = [tool |-> "add", arg |-> <<a, b>>]
        /\ response' = result
        /\ UNCHANGED <<assets, core_philosophy, calls, locals,
                       TOOL_USAGE_COUNTER, printed, repo>>

(* ------------------------------ workflow ------------------------------- *)

\* what running an external command can come to: it cannot be spawned, it
\* exits with a failure status, or it exits with success
CommandOutcomes ==
    {[spawned |-> FALSE, success |-> FALSE, stdout |-> <<>>, stderr |-> <<>>],
     [spawned |-> TRUE, success |-> FALSE, stdout |-> <<"o">>,
      stderr |-> <<"f","a","t","a","l">>],
     [spawned |-> TRUE, success |-> TRUE, stdout |-> <<"o","k","\n">>,
      stderr |-> <<>>],
     [spawned |-> TRUE, success |-> TRUE, stdout |-> <<" ","0xFF","k">>,
      stderr |-> <<>>]}

\* the programs the tools run
git == <<"g","i","t">>

gh == <<"g","h">>

\* String::from_utf8_lossy: an invalid byte becomes U+FFFD
from_utf8_lossy(bytes) ==
    [k \in 1..Len(bytes) |-> IF bytes[k] = "0xFF" THEN "U+FFFD" ELSE bytes[k]]

\* McpError::internal_error(message, None)
internal_error(message) == [isError |-> TRUE, value |-> message]

Ok(value) == [isError |-> FALSE, value |-> value]

\* variant: the exit status is not looked at
run_command_any_status(program, args, outcome) ==
    IF ~outcome.spawned
    THEN internal_error(<<"Failed to execute command '">> \o program \o <<"': ">>)
    ELSE Ok(trim(from_utf8_lossy(outcome.stdout)))

run_command(program, args, outcome) ==
    IF ~outcome.spawned
    THEN internal_error(<<"Failed to execute command '">> \o program \o <<"': ">>)
    ELSE IF outcome.success
    THEN Ok(trim(from_utf8_lossy(outcome.stdout)))
    ELSE internal_error(<<"Command '">> \o program \o <<" ">> \o join(args, <<" ">>)
                        \o <<"' failed with status ", "exit status: 1", ":\n">>
                        \o from_utf8_lossy(outcome.stderr))

\* variant: an error is dropped and the tool goes on
question_mark_ignored(result, next) == next

\* the ? operator: an Err returns from the tool, an Ok goes on
question_mark(result, next) == IF result.isError THEN "done" ELSE next

\* the locals of a call that ran no command yet
NoCommands == [ran |-> <<>>,
               tmp_file |-> [created |-> FALSE, content |-> <<>>]]

\* the locals of call t after one command was run
locals_after(t, program, args, outcome, result) ==
    [locals EXCEPT ![t].ran = Append(@, [program |-> program, args |-> args,
                                         outcome |-> outcome,
                                         result |-> result])]

\* the call t after a step that returned result and leads to pc next
calls_after(t, result, next, value) ==
    [calls EXCEPT ![t].pc = question_mark(result, next),
                  ![t].output = IF result.isError THEN result
                                ELSE IF next = "done" THEN Ok(value)
                                ELSE @]

Versions == {<<"v","1">>}

ReleaseNotes == {<<"n","o","t","e","s">>}

CreateGitReleaseParams ==
    [version_tag : Versions, release_notes : ReleaseNotes,
     is_prerelease : BOOLEAN]

StageAndCommitParams ==
    [commit_title : {<<"f","i","x">>}, commit_body : {<<>>, <<"b">>}]

BeginCreateGitRelease ==
    \E t \in Tasks : \E p \in CreateGitReleaseParams :
        /\ calls[t].pc = "idle"
        /\ calls' = [calls EXCEPT ![t] =
                        [tool |-> "create_git_release", arg |-> p,
                         pc |-> "tag", i |-> 0, output |-> NoResponse]]
        /\ locals' = [locals EXCEPT ![t] = NoCommands]
        /\ UNCHANGED <<assets, core_philosophy, request, response,
                       TOOL_USAGE_COUNTER, printed, repo>>

\* run_command("git", &["tag", &p.version_tag])?;
RunTag ==
    \E t \in Tasks : \E outcome \in CommandOutcomes :
        LET p      == calls[t].arg
            args   == <<<<"t","a","g">>, p.version_tag>>
            result == run_command(git, args, outcome)
        IN  /\ calls[t].pc = "tag"
            /\ locals' = locals_after(t, git, args, outcome, result)
            /\ calls' = calls_after(t, result, "push", <<>>)
            /\ repo' = IF result.isError THEN repo
                       ELSE [repo EXCEPT !.tags = @ \cup {p.version_tag}]
            /\ UNCHANGED <<assets, core_philosophy, request, response,
                           TOOL_USAGE_COUNTER, printed>>

\* run_command("git", &["push", "origin", &p.version_tag])?;
RunPush ==
    \E t \in Tasks : \E outcome \in CommandOutcomes :
        LET p      == calls[t].arg
            args   == <<<<"p","u","s","h">>, <<"o","r","i","g","i","n">>,
                        p.version_tag>>
            result == run_command(git, args, outcome)
        IN  /\ calls[t].pc = "push"
            /\ locals' = locals_after(t, git, args, outcome, result)
            /\ calls' = calls_after(t, result, "release", <<>>)
            /\ repo' = IF result.isError THEN repo
                       ELSE [repo EXCEPT !.pushed = @ \cup {p.version_tag}]
            /\ UNCHANGED <<assets, core_philosophy, request, response,
                           TOOL_USAGE_COUNTER, printed>>

\* the arguments handed to gh
release_args(p) ==
    LET title_arg == <<"R","e","l","e","a","s","e"," ">> \o p.version_tag
        args == <<<<"r","e","l","e","a","s","e">>, <<"c","r","e","a","t","e">>,
                  p.version_tag, <<"-","-","n","o","t","e","s">>,
                  p.release_notes, <<"-","-","t","i","t","l","e">>,
                  title_arg>>
    IN  IF p.is_prerelease
        THEN Append(args, <<"-","-","p","r","e","r","e","l","e","a","s","e">>)
        ELSE args

\* let release_output = run_command("gh", &args)?; Ok(format!(..))
RunRelease ==
    \E t \in Tasks : \E outcome \in CommandOutcomes :
        LET p      == calls[t].arg
            args   == release_args(p)
            result == run_command(gh, args, outcome)
        IN  /\ calls[t].pc = "release"
            /\ locals' = locals_after(t, gh, args, outcome, result)
            /\ calls' = calls_after(t, result, "done",
                            <<"Successfully created release ">>
                            \o p.version_tag \o <<".\nURL: ">> \o result.value)
            /\ repo' = IF result.isError THEN repo
                       ELSE [repo EXCEPT !.releases = @ \cup
                                {[tag |-> p.version_tag,
                                  prerelease |-> Len(args) = 8]}]
            /\ UNCHANGED <<assets, core_philosophy, request, response,
                           TOOL_USAGE_COUNTER, printed>>

BeginStageAndCommit ==
    \E t \in Tasks : \E p \in StageAndCommitParams :
        /\ calls[t].pc = "idle"
        /\ calls' = [calls EXCEPT ![t] =
                        [tool |-> "stage_and_commit", arg |-> p,
                         pc |-> "add", i |-> 0, output |-> NoResponse]]
        /\ locals' = [locals EXCEPT ![t] = NoCommands]
        /\ UNCHANGED <<assets, core_philosophy, request, response,
                       TOOL_USAGE_COUNTER, printed, repo>>

\* run_command("git", &["add", "."])?;
RunAdd ==
    \E t \in Tasks : \E outcome \in CommandOutcomes :
        LET args   == <<<<"a","d","d">>, <<".">>>>
            result == run_command(git, args, outcome)
        IN  /\ calls[t].pc = "add"
            /\ locals' = locals_after(t, git, args, outcome, result)
            /\ calls' = calls_after(t, result, "tmp_file", <<>>)
            /\ repo' = IF result.isError THEN repo
                       ELSE [repo EXCEPT !.staged = TRUE]
            /\ UNCHANGED <<assets, core_philosophy, request, response,
                           TOOL_USAGE_COUNTER, printed>>

\* format!("{}\n\n{}", params.0.commit_title, params.0.commit_body)
full_commit_message(p) == p.commit_title \o <<"\n", "\n">> \o p.commit_body

\* let mut tmp_file = NamedTempFile::new().map_err(..)?;
CreateTempFile ==
    \E t \in Tasks : \E created \in BOOLEAN :
        LET result == IF created THEN Ok(<<>>)
                      ELSE internal_error(<<"Failed to create temp file: ">>)
        IN  /\ calls[t].pc = "tmp_file"
            /\ locals' = [locals EXCEPT ![t].tmp_file.created = created]
            /\ calls' = calls_after(t, result, "write", <<>>)
            /\ UNCHANGED <<assets, core_philosophy, request, response,
                           TOOL_USAGE_COUNTER, printed, repo>>

\* variant: the file is left as created
WriteTempFile_skipped ==
    \E t \in Tasks :
        /\ calls[t].pc = "write"
        /\ calls' = calls_after(t, Ok(<<>>), "commit", <<>>)
        /\ UNCHANGED <<assets, core_philosophy, request, response, locals,
                       TOOL_USAGE_COUNTER, printed, repo>>

\* write!(tmp_file, "{}", full_commit_message).map_err(..)?;
WriteTempFile ==
    \E t \in Tasks : \E written \in BOOLEAN :
        LET result == IF written THEN Ok(<<>>)
                      ELSE internal_error(<<"Failed to write to temp file: ">>)
        IN  /\ calls[t].pc = "write"
            /\ locals' = [locals EXCEPT ![t].tmp_file.content =
                             IF written THEN full_commit_message(calls[t].arg)
                             ELSE @]
            /\ calls' = calls_after(t, result, "commit", <<>>)
            /\ UNCHANGED <<assets, core_philosophy, request, response,
                           TOOL_USAGE_COUNTER, printed, repo>>

\* let commit_output = run_command("git", &["commit", "-F", path])?;
\* Ok(format!("Commit successful:\n{}", commit_output))
RunCommit ==
    \E t \in Tasks : \E outcome \in CommandOutcomes :
        LET args   == <<<<"c","o","m","m","i","t">>, <<"-","F">>,
                        <<"t","m","p","_","f","i","l","e">>>>
            result == run_command(git, args, outcome)
        IN  /\ calls[t].pc = "commit"
            /\ locals' = locals_after(t, git, args, outcome, result)
            /\ calls' = calls_after(t, result, "done",
                            <<"Commit successful:\n">> \o result.value)
            /\ repo' = IF result.isError THEN repo
                       ELSE [repo EXCEPT !.staged = FALSE,
                                         !.commits = @ \cup
                                             {locals[t].tmp_file.content}]
            /\ UNCHANGED <<assets, core_philosophy, request, response,
                           TOOL_USAGE_COUNTER, printed>>

(* --------------------------- state machine ----------------------------- *)

Init ==
    /\ assets \in [AssetPaths -> Contents]
    /\ core_philosophy \in BaseDocs
    /\ request = Idle
    /\ response = NoResponse
    /\ calls = NoCalls
    /\ locals = NoLocals
    /\ TOOL_USAGE_COUNTER = 1
    /\ printed = <<>>
    /\ repo = EmptyRepo

CallAdapt ==
    /\ request = Idle
    /\ \E languages \in AdaptRequests :
        /\ request' = [tool |-> "adapt", arg |-> languages]
        /\ response' = adapt(languages)
        /\ UNCHANGED <<assets, core_philosophy, calls, locals,
                     TOOL_USAGE_COUNTER, printed, repo>>

CallFromString ==
    /\ request = Idle
    /\ \E s \in Identifiers :
        /\ request' = [tool |-> "from_string", arg |-> s]
        /\ response' = [isError |-> FALSE, value |-> from_string(s)]
        /\ UNCHANGED <<assets, core_philosophy, calls, locals,
                     TOOL_USAGE_COUNTER, printed, repo>>

\* variant: the served files are drained once read
CallGetGuidance_draining ==
    /\ request = Idle
    /\ \E lang \in LanguageGuide :
        /\ request' = [tool |-> "get_guidance", arg |-> lang]
        /\ response' = [isError |-> FALSE, value |-> get_guidance(lang)]
        /\ assets' = [p \in AssetPaths |-> <<>>]
        /\ UNCHANGED <<core_philosophy, calls, locals,
                     TOOL_USAGE_COUNTER, printed, repo>>

CallGetGuidance ==
    /\ request = Idle
    /\ \E lang \in LanguageGuide :
        /\ request' = [tool |-> "get_guidance", arg |-> lang]
        /\ response' = [isError |-> FALSE, value |-> get_guidance(lang)]
        /\ UNCHANGED <<assets, core_philosophy, calls, locals,
                     TOOL_USAGE_COUNTER, printed, repo>>

ExpandFiles ==
    /\ request = Idle
    /\ \E paths \in PathLists :
        /\ request' = [tool |-> "files", arg |-> paths]
        /\ response' = [isError |-> FALSE, value |-> process_content_files(paths)]
        /\ UNCHANGED <<assets, core_philosophy, calls, locals,
                     TOOL_USAGE_COUNTER, printed, repo>>

\* the serve loop writes the response to the transport and waits for the
\* next request
Reply ==
    /\ request # Idle
    /\ request' = Idle
    /\ response' = NoResponse
    /\ UNCHANGED <<assets, core_philosophy, calls, locals,
                 TOOL_USAGE_COUNTER, printed, repo>>

\* from_string of one invocation of the macro applied to one input
ExpandFromString ==
    /\ request = Idle
    /\ \E registry \in MacroRegistries : \E s \in MacroInputs :
        /\ request' = [tool |-> "macro.from_string",
                       arg |-> [registry |-> registry, s |-> s]]
        /\ response' = [isError |-> FALSE, value |-> from_string_of(registry, s)]
        /\ UNCHANGED <<assets, core_philosophy, calls, locals,
                     TOOL_USAGE_COUNTER, printed, repo>>

\* the tools and the resolver of the example directives servers
ExFromString ==
    /\ request = Idle
    /\ \E s \in DirectiveIds :
        /\ request' = [tool |-> "ex.from_string", arg |-> s]
        /\ response' = [isError |-> FALSE, value |-> ex_from_string(s)]
        /\ UNCHANGED <<assets, core_philosophy, calls, locals,
                     TOOL_USAGE_COUNTER, printed, repo>>

HwFromString ==
    /\ request = Idle
    /\ \E s \in DirectiveIds :
        /\ request' = [tool |-> "hw.from_string", arg |-> s]
        /\ response' = [isError |-> FALSE, value |-> hw_from_string(s)]
        /\ UNCHANGED <<assets, core_philosophy, calls, locals,
                     TOOL_USAGE_COUNTER, printed, repo>>

ExGetGuidance ==
    /\ request = Idle
    /\ \E language \in DirectiveIds :
        /\ request' = [tool |-> "ex.get_guidance", arg |-> language]
        /\ response' = ex_tool_get_guidance(language)
        /\ UNCHANGED <<assets, core_philosophy, calls, locals,
                     TOOL_USAGE_COUNTER, printed, repo>>

HwGetGuidance ==
    /\ request = Idle
    /\ \E language \in DirectiveIds :
        /\ request' = [tool |-> "hw.get_guidance", arg |-> language]
        /\ response' = hw_tool_get_guidance(language)
        /\ UNCHANGED <<assets, core_philosophy, calls, locals,
                     TOOL_USAGE_COUNTER, printed, repo>>

ExGetMultipleGuidances ==
    /\ request = Idle
    /\ \E languages \in MultipleRequests :
        /\ request' = [tool |-> "ex.get_multiple_guidances", arg |-> languages]
        /\ response' = ex_get_multiple_guidances(languages)
        /\ UNCHANGED <<assets, core_philosophy, calls, locals,
                     TOOL_USAGE_COUNTER, printed, repo>>

HwGetMultipleGuidances ==
    /\ request = Idle
    /\ \E languages \in MultipleRequests :
        /\ request' = [tool |-> "hw.get_multiple_guidances", arg |-> languages]
        /\ response' = hw_get_multiple_guidances(languages)
        /\ UNCHANGED <<assets, core_philosophy, calls, locals,
                     TOOL_USAGE_COUNTER, printed, repo>>

Next == CallAdapt \/ CallFromString \/ CallGetGuidance \/ ExpandFiles \/ Reply

Spec == Init /\ [][Next]_vars

\* the macro on its own: one build, any invocation
MacroInit ==
    /\ assets = [p \in AssetPaths |-> <<"a">>]
    /\ core_philosophy = <<"B">>
    /\ request = Idle
    /\ response = NoResponse
    /\ calls = NoCalls
    /\ locals = NoLocals
    /\ TOOL_USAGE_COUNTER = 1
    /\ printed = <<>>
    /\ repo = EmptyRepo

MacroNext == ExpandFromString \/ Reply

SpecMacro == MacroInit /\ [][MacroNext]_vars

\* the example directives servers: the build reads d-python.md and
\* d-python.py, the other files are not part of it
DirectivesInit ==
    /\ assets \in {f \in [AssetPaths -> Contents] :
                      \A p \in AssetPaths \ {"d-python.md", "d-python.py"} :
                          f[p] = <<>>}
    /\ core_philosophy = <<"B">>
    /\ request = Idle
    /\ response = NoResponse
    /\ calls = NoCalls
    /\ locals = NoLocals
    /\ TOOL_USAGE_COUNTER = 1
    /\ printed = <<>>
    /\ repo = EmptyRepo

DirectivesNext ==
    \/ ExFromString
    \/ HwFromString
    \/ ExGetGuidance
    \/ HwGetGuidance
    \/ ExGetMultipleGuidances
    \/ HwGetMultipleGuidances
    \/ Reply

SpecDirectives == DirectivesInit /\ [][DirectivesNext]_vars

TypeOK ==
    /\ assets \in [AssetPaths -> Contents]
    /\ core_philosophy \in BaseDocs
    /\ request.tool \in {"none", "adapt", "from_string", "get_guidance", "files"}
    /\ response.isError \in BOOLEAN

\* the scout server with its handlers running concurrently: one build
ConcurrentInit ==
    /\ assets \in {f \in [AssetPaths -> Contents] :
                      /\ \A p \in AssetPaths \ {"d-python.md", "d-python.py"} :
                             f[p] = <<"a">>
                      /\ f["d-python.md"] # <<>>
                      /\ f["d-python.py"] # <<"b">>}
    /\ core_philosophy = <<"B">>
    /\ request = Idle
    /\ response = NoResponse
    /\ calls = NoCalls
    /\ locals = NoLocals
    /\ TOOL_USAGE_COUNTER = 1
    /\ printed = <<>>
    /\ repo = EmptyRepo

ConcurrentNext ==
    \/ BeginAdapt
    \/ BeginFromString
    \/ BeginGetGuidance
    \/ NewResult
    \/ PushBase
    \/ PushSeparator
    \/ PushGuidance
    \/ ReturnResult
    \/ ResolveStep
    \/ GuideStep
    \/ Finish

SpecConcurrent == ConcurrentInit /\ [][ConcurrentNext]_vars

\* the tester server with its parse_str handlers running concurrently
TesterInit ==
    /\ assets = [p \in AssetPaths |-> <<"a">>]
    /\ core_philosophy = <<"B">>
    /\ request = Idle
    /\ response = NoResponse
    /\ calls = NoCalls
    /\ locals = NoLocals
    /\ TOOL_USAGE_COUNTER = 1
    /\ printed = <<>>
    /\ repo = EmptyRepo

TesterNext ==
    \/ BeginParseStr
    \/ FetchAdd
    \/ Println
    \/ FormatReturn
    \/ Respond

SpecTester == TesterInit /\ [][TesterNext]_vars

\* the calculator server
AddInit ==
    /\ assets = [p \in AssetPaths |-> <<"a">>]
    /\ core_philosophy = <<"B">>
    /\ request = Idle
    /\ response = NoResponse
    /\ calls = NoCalls
    /\ locals = NoLocals
    /\ TOOL_USAGE_COUNTER = 1
    /\ printed = <<>>
    /\ repo = EmptyRepo

AddNext == CallAdd \/ Reply

SpecAdd == AddInit /\ [][AddNext]_vars

\* the workflow server in the repository its client started it in
WorkflowInit ==
    /\ assets = [p \in AssetPaths |-> <<"a">>]
    /\ core_philosophy = <<"B">>
    /\ request = Idle
    /\ response = NoResponse
    /\ calls = NoCalls
    /\ locals = NoLocals
    /\ TOOL_USAGE_COUNTER = 1
    /\ printed = <<>>
    /\ repo = EmptyRepo

WorkflowNext ==
    \/ BeginCreateGitRelease
    \/ RunTag
    \/ RunPush
    \/ RunRelease
    \/ BeginStageAndCommit
    \/ RunAdd
    \/ CreateTempFile
    \/ WriteTempFile
    \/ RunCommit
    \/ Respond

SpecWorkflow == WorkflowInit /\ [][WorkflowNext]_vars

(* ------------------------------ claims --------------------------------- *)

Drop(s, n) == SubSeq(s, n + 1, Len(s))

IsAdapt == request.tool = "adapt"

IsFromString == request.tool = "from_string"

IsFiles == request.tool = "files"

\* the separator and the notice as the specification words them
SpecSeparator == <<"\n","\n","-","-","-","\n","\n">>

SpecNotice(id) ==
    <<"N","o","t","e",":"," ","N","o"," ","s","p","e","c","i","f","i","c"," ",
      "g","u","i","d","a","n","c","e"," ","a","v","a","i","l","a","b","l","e"," ",
      "f","o","r"," ","l","a","n","g","u","a","g","e",":"," ","'">>
    \o id \o <<"'",".">>

\* the section the specification prescribes for one identifier
SpecSection(id) ==
    IF from_string(id) = None THEN SpecNotice(id)
    ELSE get_guidance(from_string(id))

\* base document, then separator and section for ids[1..n]
RECURSIVE SpecBundle(_, _)
SpecBundle(ids, n) ==
    IF n = 0 THEN core_philosophy
    ELSE SpecBundle(ids, n - 1) \o SpecSeparator \o SpecSection(ids[n])

py == <<"p","y">>

unknownlang == <<"u","n","k","n","o","w","n","l","a","n","g">>

\* C1: the text adapt returns is the base document followed, for each
\* requested identifier in order, by the separator and then the guidance of
\* the category the identifier resolves to, or the notice when it resolves
\* to none.
C1_AdaptComposes ==
    IsAdapt => response.value = SpecBundle(request.arg, Len(request.arg))

C1_Witness ==
    /\ IsAdapt
    /\ request.arg = <<py, unknownlang>>
    /\ assets["d-python.md"] = <<"a">>
    /\ assets["d-python.py"] = <<"b">>
    /\ response.value =
         core_philosophy \o SpecSeparator
           \o <<"a">> \o SpecSeparator \o <<"b">>
           \o SpecSeparator \o SpecNotice(unknownlang)

\* the lowercased canonical name of each category of the registry
LowercasedName ==
    [Readme |-> <<"r","e","a","d","m","e">>,
     Rust   |-> <<"r","u","s","t">>,
     Python |-> <<"p","y","t","h","o","n">>,
     Web    |-> <<"w","e","b">>,
     Go     |-> <<"g","o">>,
     C      |-> <<"c">>]

\* C2: from_string of the lowercased canonical name of a registered
\* category returns that category.
C2_LowercasedNameResolves ==
    IsFromString =>
        \A lang \in LanguageGuide :
            request.arg = LowercasedName[lang] => response.value = lang

C2_Witness ==
    /\ IsFromString
    /\ request.arg = <<"p","y","t","h","o","n">>
    /\ response.value = "Python"

\* the aliases each category of the registry declares
AliasesOf(lang) ==
    LET i == CHOOSE j \in 1..Len(Registry) : Registry[j].lang = lang
    IN  {Registry[i].aliases[k] : k \in 1..Len(Registry[i].aliases)}

\* x is a with the case of some of its letters changed
IsCaseVariant(x, a) ==
    /\ Len(x) = Len(a)
    /\ \A k \in 1..Len(a) : x[k] \in {a[k], char_to_uppercase(a[k])}

\* C3: from_string of a registered alias, in any casing of its letters,
\* returns the category that declares the alias.
C3_AliasAnyCaseResolves ==
    IsFromString =>
        \A lang \in LanguageGuide :
            \A a \in AliasesOf(lang) :
                IsCaseVariant(request.arg, a) => response.value = lang

C3_Witness ==
    /\ IsFromString
    /\ request.arg = <<"S","v","E","l","t","E">>
    /\ response.value = "Web"

Registered(x) == to_lowercase(x) \in RegisteredNames \cup RegisteredAliases

\* C4: an identifier that is neither a name nor an alias resolves to None,
\* and adapt of that single identifier returns the base document, the
\* separator and the notice quoting the identifier as supplied.
C4_UnknownGetsNotice ==
    /\ (IsFromString /\ ~Registered(request.arg)) => response.value = None
    /\ (IsAdapt /\ Len(request.arg) = 1 /\ ~Registered(request.arg[1])) =>
          /\ from_string(request.arg[1]) = None
          /\ response.value =
               core_philosophy \o SpecSeparator \o SpecNotice(request.arg[1])

C4_Witness ==
    /\ IsAdapt
    /\ request.arg = << <<"Z","i","g">> >>
    /\ response.value =
         core_philosophy \o SpecSeparator
           \o <<"N","o","t","e",":"," ","N","o"," ","s","p","e","c","i","f","i","c"," ",
                "g","u","i","d","a","n","c","e"," ","a","v","a","i","l","a","b","l","e"," ",
                "f","o","r"," ","l","a","n","g","u","a","g","e",":"," ","'",
                "Z","i","g","'",".">>

\* C5: adapt of an empty languages vector returns exactly the base document.
C5_EmptyRequestIsBase ==
    (IsAdapt /\ request.arg = <<>>) => response.value = core_philosophy

C5_Witness ==
    /\ IsAdapt
    /\ request.arg = <<>>
    /\ response.value = <<"B","A","S","E">>

\* C6: adapt always returns a success result, and an unresolved identifier
\* at position i leaves the sections of the identifiers after i as they are
\* when requested on their own.
C6_AdaptNeverFails ==
    IsAdapt =>
        /\ response.isError = FALSE
        /\ \A i \in 1..Len(request.arg) :
              from_string(request.arg[i]) = None =>
                  response.value =
                      adapt(SubSeq(request.arg, 1, i)).value
                        \o Drop(adapt(SubSeq(request.arg, i + 1, Len(request.arg))).value,
                                Len(core_philosophy))

C6_Witness ==
    /\ IsAdapt
    /\ request.arg = <<unknownlang, py>>
    /\ response.isError = FALSE
    /\ assets["d-python.md"] = <<>>
    /\ assets["d-python.py"] = <<"a">>
    /\ Drop(response.value, Len(response.value) - 8) = SpecSeparator \o <<"a">>

\* the section of one identifier, read off the bundle of that identifier alone
SectionAlone(id) ==
    Drop(adapt(<<id>>).value, Len(core_philosophy) + Len(SpecSeparator))

\* C7: adapt of [id1, id2] and adapt of [id2, id1] hold the same two
\* sections, each as it is when its identifier is requested alone, in
\* swapped order.
C7_OrderSwapsSections ==
    (IsAdapt /\ Len(request.arg) = 2) =>
        LET id1 == request.arg[1]
            id2 == request.arg[2]
        IN  /\ response.value =
                 core_philosophy \o SpecSeparator \o SectionAlone(id1)
                                 \o SpecSeparator \o SectionAlone(id2)
            /\ adapt(<<id2, id1>>).value =
                 core_philosophy \o SpecSeparator \o SectionAlone(id2)
                                 \o SpecSeparator \o SectionAlone(id1)

C7_Witness ==
    /\ IsAdapt
    /\ request.arg = << <<"j","s">>, <<"Z","i","g">> >>
    /\ response.value # adapt(<< <<"Z","i","g">>, <<"j","s">> >>).value
    /\ Len(response.value) = Len(adapt(<< <<"Z","i","g">>, <<"j","s">> >>).value)

\* where the part of the bundle for ids[i] starts (0-based offset)
RECURSIVE SectionOffset(_, _)
SectionOffset(ids, i) ==
    IF i = 1 THEN Len(core_philosophy)
    ELSE SectionOffset(ids, i - 1)
           + Len(SpecSeparator) + Len(SectionAlone(ids[i - 1]))

\* C8: adapt does not deduplicate: every position of the request, repeated
\* identifiers included, has its own separator and section in the output,
\* at the place its position gives, and nothing else follows the base.
C8_NoDeduplication ==
    IsAdapt =>
        LET ids == request.arg
            n   == Len(ids)
        IN  /\ Len(response.value) = SectionOffset(ids, n + 1)
            /\ \A i \in 1..n :
                  SubSeq(response.value, SectionOffset(ids, i) + 1,
                         SectionOffset(ids, i + 1))
                    = SpecSeparator \o SectionAlone(ids[i])

C8_Witness ==
    /\ IsAdapt
    /\ request.arg = <<py, py>>
    /\ assets["d-python.md"] = <<>>
    /\ assets["d-python.py"] = <<"a">>
    /\ response.value =
         core_philosophy \o SpecSeparator \o <<"a">> \o SpecSeparator \o <<"a">>

\* C9: every bundle adapt returns begins with the base document.
C9_BaseDocumentFirst ==
    IsAdapt =>
        /\ Len(response.value) >= Len(core_philosophy)
        /\ SubSeq(response.value, 1, Len(core_philosophy)) = core_philosophy

C9_Witness ==
    /\ IsAdapt
    /\ request.arg = <<unknownlang, unknownlang>>
    /\ core_philosophy = <<"B","A","S","E">>
    /\ SubSeq(response.value, 1, 4) = <<"B","A","S","E">>

\* the contents of the files of a path list, in declared order
ContentsOf(paths) == [i \in 1..Len(paths) |-> assets[paths[i]]]

\* texts joined with one separator between each pair of neighbours
RECURSIVE JoinWithSeparator(_)
JoinWithSeparator(texts) ==
    IF texts = <<>> THEN <<>>
    ELSE IF Len(texts) = 1 THEN texts[1]
    ELSE texts[1] \o SpecSeparator \o JoinWithSeparator(Tail(texts))

\* the list without its leading empty texts
RECURSIVE DropLeadingEmpty(_)
DropLeadingEmpty(texts) ==
    IF texts = <<>> THEN <<>>
    ELSE IF Head(texts) = <<>> THEN DropLeadingEmpty(Tail(texts))
    ELSE texts

\* C10 as claimed: files!([p1..pn]) yields the contents of p1..pn joined with
\* exactly n-1 separators, whatever the contents.
C10_Original ==
    IsFiles => response.value = JoinWithSeparator(ContentsOf(request.arg))

\* C10 as amended: files!([p1..pn]) yields the contents of p1..pn in declared
\* order with one separator before every file that follows the first
\* non-empty file; the files before the first non-empty one are empty and
\* add nothing, separators included.
C10_FilesJoinedAfterFirstNonEmpty ==
    IsFiles =>
        response.value = JoinWithSeparator(DropLeadingEmpty(ContentsOf(request.arg)))

C10_Witness ==
    /\ IsFiles
    /\ request.arg = <<"d-rust.md", "d-rust.rs", "d-python.md">>
    /\ assets["d-rust.md"] = <<>>
    /\ assets["d-rust.rs"] = <<"a">>
    /\ assets["d-python.md"] = <<>>
    /\ response.value = <<"a">> \o SpecSeparator


IsGetGuidance == request.tool = "get_guidance"

StartsWith(s, p) == Len(s) >= Len(p) /\ SubSeq(s, 1, Len(p)) = p

\* C11: files!([...]) never yields a leading separator: the result begins
\* with the content of the first non-empty file, and is empty when every
\* file is empty.
C11_NoLeadingSeparator ==
    IsFiles =>
        LET texts    == ContentsOf(request.arg)
            nonEmpty == {i \in 1..Len(texts) : texts[i] # <<>>}
        IN  IF nonEmpty = {} THEN response.value = <<>>
            ELSE LET k == CHOOSE i \in nonEmpty : \A j \in nonEmpty : i <= j
                 IN  /\ StartsWith(response.value, texts[k])
                     /\ ~StartsWith(response.value, SpecSeparator)

C11_Witness ==
    /\ IsFiles
    /\ request.arg = <<"d-rust.md", "d-rust.rs">>
    /\ assets["d-rust.md"] = <<>>
    /\ assets["d-rust.rs"] = <<"b">>
    /\ response.value = <<"b">>

\* C12: no step changes the registry content: the text get_guidance gives
\* for a category is the same before and after every step, and every answer
\* to a get_guidance call is that text.
C12_GuidanceNeverChanges ==
    [][/\ assets' = assets
       /\ core_philosophy' = core_philosophy
       /\ \A lang \in LanguageGuide : get_guidance(lang)' = get_guidance(lang)
       /\ request'.tool = "get_guidance" =>
              response'.value = get_guidance(request'.arg)]_vars

C12_Witness ==
    /\ IsGetGuidance
    /\ request.arg = "Rust"
    /\ assets["d-rust.md"] = <<"a">>
    /\ assets["d-rust.rs"] = <<"b">>
    /\ response.value = <<"a">> \o SpecSeparator \o <<"b">>

\* the strings entry i of the registry claims: its lowercased name, then its
\* aliases
ClaimedBy(i) == <<LowercasedName[Registry[i].lang]>> \o Registry[i].aliases

\* every claim of the registry as (entry, position in ClaimedBy)
AllClaims ==
    UNION {{<<i, k>> : k \in 1..Len(ClaimedBy(i))} : i \in 1..Len(Registry)}

\* the claims of the string that x lowercases to
ClaimsOf(x) == {p \in AllClaims : ClaimedBy(p[1])[p[2]] = to_lowercase(x)}

\* C14 as claimed: no string is claimed twice in the scout registry, neither
\* by two categories nor as both the name and an alias.
C14_Original ==
    IsFromString =>
        \A p \in ClaimsOf(request.arg) : \A q \in ClaimsOf(request.arg) : p = q

\* C14 as amended: no string is claimed by two categories of the scout
\* registry and no category lists an alias twice; a string claimed twice is
\* the lowercased name of a category that the same category also lists as
\* an alias.
C14_UniqueAcrossCategories ==
    IsFromString =>
        \A p \in ClaimsOf(request.arg) : \A q \in ClaimsOf(request.arg) :
            p # q => /\ p[1] = q[1]
                     /\ p[2] = 1 \/ q[2] = 1

C14_Witness ==
    /\ IsFromString
    /\ request.arg = <<"c">>
    /\ response.value = "C"
    /\ ClaimedBy(6)[1] = <<"c">>
    /\ ClaimedBy(6)[2] = <<"c">>

\* the registry entry of lang names a content source the macro can expand
HasContentSource(lang) ==
    \E i \in 1..Len(Registry) :
        /\ Registry[i].lang = lang
        /\ \/ Registry[i].content_type = "content"
           \/ /\ Registry[i].content_type = "file"
              /\ Len(Registry[i].content) = 1
              /\ Registry[i].content[1] \in DOMAIN assets
           \/ /\ Registry[i].content_type = "files"
              /\ Len(Registry[i].content) >= 1
              /\ \A k \in 1..Len(Registry[i].content) :
                    Registry[i].content[k] \in DOMAIN assets

\* C16: every LanguageGuide value has a content source, and whatever
\* from_string returns other than None is such a value.
C16_ResolvedHasContent ==
    /\ \A lang \in LanguageGuide : HasContentSource(lang)
    /\ (IsFromString /\ response.value # None) =>
          /\ response.value \in LanguageGuide
          /\ HasContentSource(response.value)

C16_Witness ==
    /\ IsFromString
    /\ request.arg = <<"R","S">>
    /\ response.value = "Rust"
    /\ HasContentSource("Rust")

\* x is a registered name or alias with whitespace added around it
IsPadded(x) == x # trim(x) /\ Registered(trim(x))

\* C17: a registered name or alias with leading or trailing whitespace
\* resolves to None, and adapt answers it with the notice.
C17_WhitespaceNotTrimmed ==
    /\ (IsFromString /\ IsPadded(request.arg)) => response.value = None
    /\ IsAdapt =>
          \A i \in 1..Len(request.arg) :
              IsPadded(request.arg[i]) =>
                  SubSeq(response.value, SectionOffset(request.arg, i) + 1,
                         SectionOffset(request.arg, i + 1))
                    = SpecSeparator \o SpecNotice(request.arg[i])

C17_Witness ==
    /\ IsAdapt
    /\ request.arg = << <<" ","p","y">> >>
    /\ response.value =
         core_philosophy \o SpecSeparator \o SpecNotice(<<" ","p","y">>)

IsMacroFromString == request.tool = "macro.from_string"

\* the entries of a registry that claim the string x lowercases to
MatchingEntries(registry, x) ==
    {i \in 1..Len(registry) :
        \/ to_lowercase(x) = to_lowercase(registry[i].name)
        \/ \E k \in 1..Len(registry[i].aliases) :
              to_lowercase(x) = registry[i].aliases[k]}

\* C13: from_string returns the first declared of the categories whose name
\* or alias matches the lowercased input, also when several match, and None
\* when none matches.
C13_FirstMatchWins ==
    IsMacroFromString =>
        LET matching == MatchingEntries(request.arg.registry, request.arg.s)
        IN  IF matching = {} THEN response.value = None
            ELSE \E i \in matching :
                    /\ \A j \in matching : i <= j
                    /\ response.value = request.arg.registry[i].lang

C13_Witness ==
    /\ IsMacroFromString
    /\ request.arg.s = <<"G","O">>
    /\ request.arg.registry =
         <<[lang |-> "C", name |-> <<"C">>, aliases |-> << <<"g","o">> >>],
           [lang |-> "Go", name |-> <<"G","o">>, aliases |-> <<>>]>>
    /\ response.value = "C"

IsExFromString == request.tool = "ex.from_string"

IsHwFromString == request.tool = "hw.from_string"

IsGetMultiple ==
    request.tool \in {"ex.get_multiple_guidances", "hw.get_multiple_guidances"}

\* the lowercased canonical names of the example registry
DirectiveLowercasedName ==
    [Go         |-> <<"g","o">>,
     Python     |-> <<"p","y","t","h","o","n">>,
     Rust       |-> <<"r","u","s","t">>,
     C          |-> <<"c">>,
     Web        |-> <<"w","e","b">>,
     Kotlin     |-> <<"k","o","t","l","i","n">>,
     Container  |-> <<"c","o","n","t","a","i","n","e","r">>,
     SystemTool |-> <<"s","y","s","t","e","m","t","o","o","l">>]

\* C18: in both example directives servers from_string of the lowercased
\* canonical name of a category returns that category.
C18_LowercasedNameResolves ==
    (IsExFromString \/ IsHwFromString) =>
        \A lang \in DirectiveGuides :
            request.arg = DirectiveLowercasedName[lang] => response.value = lang

\* C19: on every input the resolver generated by the macro and the resolver
\* written by hand return the same category, or both None.
C19_ResolversAgree ==
    /\ IsExFromString => response.value = hw_from_string(request.arg)
    /\ IsHwFromString => response.value = ex_from_string(request.arg)

\* the heading and the fallback text as the claim words them
SpecHeading(language) ==
    <<"#","#","#"," ">> \o language \o <<" ","G","u","i","d","a","n","c","e",":","\n">>

SpecFallback(language) ==
    <<"N","o"," ","s","p","e","c","i","f","i","c"," ","g","u","i","d","a","n","c","e"," ","a","v","a","i","l","a","b","l","e"," ","f","o","r"," ">>
    \o <<"l","a","n","g","u","a","g","e",":"," ">> \o language
    \o <<"."," ","U","s","i","n","g"," ","g","e","n","e","r","a","l"," ","d","e","v","e","l","o","p","m","e","n","t"," ">>
    \o <<"p","h","i","l","o","s","o","p","h","y",".">>

ServedByEx == request.tool = "ex.get_multiple_guidances"

\* what the tool get_guidance of the serving server answers for one language
ToolGuidance(language) ==
    IF ServedByEx THEN ex_tool_get_guidance(language).value
    ELSE hw_tool_get_guidance(language).value

Unresolved(language) ==
    IF ServedByEx THEN ex_from_string(language) = None
    ELSE hw_from_string(language) = None

\* heading, guidance and separator for ids[1..n]
RECURSIVE SpecBlocks(_, _)
SpecBlocks(ids, n) ==
    IF n = 0 THEN <<>>
    ELSE SpecBlocks(ids, n - 1)
           \o SpecHeading(ids[n]) \o ToolGuidance(ids[n]) \o SpecSeparator

EndsWith(s, p) ==
    Len(s) >= Len(p) /\ SubSeq(s, Len(s) - Len(p) + 1, Len(s)) = p

\* C20: get_multiple_guidances never fails and returns, per requested
\* language in order, the heading, the answer of get_guidance and the
\* separator: nothing for an empty list, a trailing separator otherwise, and
\* the fallback text for a language that does not resolve.
C20_MultipleGuidances ==
    IsGetMultiple =>
        /\ response.isError = FALSE
        /\ response.value = SpecBlocks(request.arg, Len(request.arg))
        /\ request.arg = <<>> => response.value = <<>>
        /\ request.arg # <<>> => EndsWith(response.value, SpecSeparator)
        /\ \A i \in 1..Len(request.arg) :
              Unresolved(request.arg[i]) =>
                  ToolGuidance(request.arg[i]) = SpecFallback(request.arg[i])

C20_Witness ==
    /\ ServedByEx
    /\ request.arg = << <<"z","i","g">>, <<"p","y">> >>
    /\ assets["d-python.md"] = <<"a">>
    /\ assets["d-python.py"] = <<"b">>
    /\ response.isError = FALSE
    /\ response.value =
         SpecHeading(<<"z","i","g">>) \o SpecFallback(<<"z","i","g">>)
           \o SpecSeparator
           \o SpecHeading(<<"p","y">>) \o <<"a","\n","b","\n">> \o SpecSeparator

\* what a call returns when it runs alone
RunAlone(call) ==
    IF call.tool = "adapt" THEN adapt(call.arg)
    ELSE IF call.tool = "from_string"
         THEN [isError |-> FALSE, value |-> from_string(call.arg)]
    ELSE [isError |-> FALSE, value |-> get_guidance(call.arg)]

\* C15: under every interleaving of adapt, from_string and get_guidance
\* calls, no step writes state shared between calls (the embedded files and
\* the base document stay as built, and a step of one call leaves the result
\* buffer of every other call alone), and each finished call returns the text
\* it returns when run alone.
C15_ConcurrentCallsIndependent ==
    [][/\ assets' = assets
       /\ core_philosophy' = core_philosophy
       /\ \A t \in Tasks : calls'[t] = calls[t] => locals'[t] = locals[t]
       /\ \A t \in Tasks :
              calls'[t].pc = "done" => calls'[t].output = RunAlone(calls'[t])
      ]_vars

C15_Witness ==
    /\ calls["t1"].tool = "adapt"
    /\ calls["t1"].pc = "done"
    /\ Len(calls["t1"].arg) = 2
    /\ calls["t1"].output = adapt(calls["t1"].arg)
    /\ calls["t2"].tool = "adapt"
    /\ calls["t2"].pc = "guidance"
    /\ calls["t2"].i = 2
    /\ calls["t2"].arg # calls["t1"].arg
    /\ locals["t2"] # <<>>

IsParseStr(t) == calls[t].tool = "parse_str"

\* the parse_str calls that hold a usage count and have not printed it yet
Holding == {t \in Tasks : IsParseStr(t) /\ calls[t].pc = "println"}

\* the parse_str calls that took a usage count and have not returned yet
Unreturned == {t \in Tasks : IsParseStr(t) /\ calls[t].pc \in {"println", "format"}}

\* the usage counts handed out so far
HandedOut ==
    {printed[k].usage_count : k \in 1..Len(printed)}
    \cup {locals[t] : t \in Holding}

\* the number of parse_str calls that took a usage count
Taken == Len(printed) + Cardinality(Holding)

\* the number of parse_str calls that returned
Completed == Len(printed) - Cardinality({t \in Tasks : IsParseStr(t) /\ calls[t].pc = "format"})

\* C21 as stated: after n completed calls the counts handed out are exactly
\* 1..n and the counter holds n+1.
C21_Original ==
    /\ HandedOut = 1..Completed
    /\ TOOL_USAGE_COUNTER = Completed + 1

\* C21: under every interleaving each parse_str call takes a distinct usage
\* count: once n calls have executed fetch_add (returned or not), the counts
\* handed out are exactly 1..n, none skipped and none handed out twice, and
\* the counter holds n+1.
C21_DistinctUsageCounts ==
    /\ HandedOut = 1..Taken
    /\ Cardinality(HandedOut) = Taken
    /\ TOOL_USAGE_COUNTER = Taken + 1

C21_Witness ==
    /\ Len(printed) = 2
    /\ printed[1].usage_count = 2
    /\ printed[2].usage_count = 1
    /\ Holding # {}
    /\ TOOL_USAGE_COUNTER = 4

\* C22: the text parse_str returns is a function of values only: two calls
\* with the same values return the same text whatever usage count each took.
C22_CounterIsIncidental ==
    \A t \in Tasks : \A u \in Tasks :
        /\ IsParseStr(t) /\ calls[t].pc = "done"
        /\ IsParseStr(u) /\ calls[u].pc = "done"
        /\ calls[t].arg = calls[u].arg
        => calls[t].output = calls[u].output

C22_Witness ==
    /\ IsParseStr("t1") /\ calls["t1"].pc = "done"
    /\ IsParseStr("t2") /\ calls["t2"].pc = "done"
    /\ calls["t1"].arg = calls["t2"].arg
    /\ calls["t1"].arg # <<>>
    /\ locals["t1"] = 3
    /\ locals["t2"] = 1
    /\ calls["t1"].output = calls["t2"].output

IsAdd == request.tool = "add"

\* the decimal string of the mathematical sum a + b, computed on the tens and
\* the units so that no intermediate value leaves the 32-bit range
SumString(a, b) ==
    LET units == (a % 10) + (b % 10)
    IN  DecimalOf((a \div 10) + (b \div 10) + (units \div 10), units % 10)

\* C23: add returns the decimal string of the mathematical sum a + b for
\* every pair of 32-bit signed integers, also when the sum is outside the
\* i32 range.
C23_AddReturnsSum ==
    IsAdd =>
        /\ ~response.isError
        /\ response.value = SumString(request.arg[1], request.arg[2])

\* add returns the decimal string of the sum whenever the sum fits an i32
AddInRange ==
    IsAdd /\ ~overflows(request.arg[1], request.arg[2]) =>
        /\ ~response.isError
        /\ response.value = SumString(request.arg[1], request.arg[2])

IsCreateGitRelease(t) == calls[t].tool = "create_git_release"

IsStageAndCommit(t) == calls[t].tool = "stage_and_commit"

\* the commands call t has run, as program and arguments
Ran(t) == [k \in 1..Len(locals[t].ran) |->
              <<locals[t].ran[k].program>> \o locals[t].ran[k].args]

\* command k of call t was spawned and exited with a success status
Succeeded(t, k) ==
    /\ locals[t].ran[k].outcome.spawned
    /\ locals[t].ran[k].outcome.success

IsPrefix(s, full) == Len(s) <= Len(full) /\ SubSeq(full, 1, Len(s)) = s

\* 'git tag <v>', 'git push origin <v>', 'gh release create <v> ..'
ReleaseSteps(p) ==
    <<<<<<"g","i","t">>, <<"t","a","g">>, p.version_tag>>,
      <<<<"g","i","t">>, <<"p","u","s","h">>, <<"o","r","i","g","i","n">>, p.version_tag>>,
      <<<<"g","h">>, <<"r","e","l","e","a","s","e">>, <<"c","r","e","a","t","e">>,
        p.version_tag, <<"-","-","n","o","t","e","s">>, p.release_notes,
        <<"-","-","t","i","t","l","e">>,
        <<"R","e","l","e","a","s","e"," ">> \o p.version_tag>>
      \o (IF p.is_prerelease
          THEN <<<<"-","-","p","r","e","r","e","l","e","a","s","e">>>>
          ELSE <<>>)>>

Prerelease == <<"-","-","p","r","e","r","e","l","e","a","s","e">>

\* C24: create_git_release runs 'git tag', 'git push origin', 'gh release
\* create' in that order, each only after the one before exited successfully;
\* the first failing step ends the tool with an error, no later step is run
\* and the tag created earlier stays; the success text is returned only when
\* all three succeeded; --prerelease is passed exactly when is_prerelease.
C24_ReleaseStepsInOrder ==
    \A t \in Tasks : IsCreateGitRelease(t) =>
        LET p == calls[t].arg
            n == Len(locals[t].ran)
        IN  /\ IsPrefix(Ran(t), ReleaseSteps(p))
            /\ \A k \in 1..(n - 1) : Succeeded(t, k)
            /\ (n >= 1 /\ Succeeded(t, 1)) => p.version_tag \in repo.tags
            /\ (n >= 1 /\ ~Succeeded(t, n)) =>
                   calls[t].pc = "done" /\ calls[t].output.isError
            /\ (calls[t].pc = "done" /\ ~calls[t].output.isError) =>
                   /\ n = 3
                   /\ \A k \in 1..3 : Succeeded(t, k)
                   /\ StartsWith(calls[t].output.value,
                                 <<"Successfully created release ">>)
            /\ (calls[t].pc = "done" /\ calls[t].output.isError) =>
                   n >= 1 /\ ~Succeeded(t, n)
            /\ n = 3 =>
                   ((\E k \in 1..Len(Ran(t)[3]) : Ran(t)[3][k] = Prerelease)
                    <=> p.is_prerelease)

C24_Witness ==
    /\ IsCreateGitRelease("t1")
    /\ calls["t1"].pc = "done"
    /\ calls["t1"].output.isError
    /\ calls["t1"].arg.is_prerelease
    /\ Len(locals["t1"].ran) = 2
    /\ ~Succeeded("t1", 2)
    /\ calls["t1"].arg.version_tag \in repo.tags
    /\ IsCreateGitRelease("t2")
    /\ calls["t2"].pc = "done"
    /\ ~calls["t2"].output.isError
    /\ ~calls["t2"].arg.is_prerelease

\* 'git add .', then 'git commit -F <tmp_file>'
CommitSteps ==
    <<<<<<"g","i","t">>, <<"a","d","d">>, <<".">>>>,
      <<<<"g","i","t">>, <<"c","o","m","m","i","t">>, <<"-","F">>,
        <<"t","m","p","_","f","i","l","e">>>>>>

\* title + "\n\n" + body
SpecMessage(p) == p.commit_title \o <<"\n", "\n">> \o p.commit_body

\* C25: stage_and_commit runs 'git commit' only after 'git add .' exited
\* successfully and the message title + "\n\n" + body was written to the
\* temporary file; when staging, creating the file or writing it fails the
\* tool returns an error and 'git commit' is never run; "Commit successful"
\* is returned only when the commit command succeeded.
C25_CommitAfterStageAndWrite ==
    \A t \in Tasks : IsStageAndCommit(t) =>
        LET p == calls[t].arg
            n == Len(locals[t].ran)
        IN  /\ IsPrefix(Ran(t), CommitSteps)
            /\ n = 2 =>
                   /\ Succeeded(t, 1)
                   /\ locals[t].tmp_file.created
                   /\ locals[t].tmp_file.content = SpecMessage(p)
            /\ (calls[t].pc = "done" /\ n < 2) => calls[t].output.isError
            /\ (n = 1 /\ ~Succeeded(t, 1)) => calls[t].pc = "done"
            /\ (calls[t].pc = "done" /\ ~calls[t].output.isError) =>
                   /\ n = 2
                   /\ Succeeded(t, 2)
                   /\ StartsWith(calls[t].output.value,
                                 <<"Commit successful:\n">>)
                   /\ SpecMessage(p) \in repo.commits
            /\ (n = 2 /\ ~Succeeded(t, 2)) =>
                   calls[t].pc = "done" /\ calls[t].output.isError

C25_Witness ==
    /\ IsStageAndCommit("t1")
    /\ calls["t1"].pc = "done"
    /\ ~calls["t1"].output.isError
    /\ calls["t1"].arg.commit_body # <<>>
    /\ IsStageAndCommit("t2")
    /\ calls["t2"].pc = "done"
    /\ calls["t2"].output.isError
    /\ Len(locals["t2"].ran) = 1
    /\ Succeeded("t2", 1)
    /\ locals["t2"].tmp_file.created
    /\ locals["t2"].tmp_file.content = <<>>

\* the run of a command the call t made last
LastRun(t) == locals[t].ran[Len(locals[t].ran)]

HasRun(t) ==
    /\ calls[t].tool \in {"create_git_release", "stage_and_commit"}
    /\ locals[t].ran # <<>>

====
